---- MODULE Spec2Model ----
(***************************************************************************)
(* Model of scripts/scrape-recipe.py: the cooking-method detector, the     *)
(* stovetop time extractor and the time reconciliation in scrape_recipe.   *)
(*                                                                         *)
(* Three specifications share the module:                                  *)
(*   SpecDetect   detect_cooking_methods, statement by statement           *)
(*   Spec         scrape_recipe from the provider times to the return      *)
(*   SpecExtract  extract_stovetop_time_from_instructions on a search text *)
(*                                                                         *)
(* A Python value that may be None is a sequence of length at most one:    *)
(* None is <<>> and the value v is <<v>>.                                  *)
(***************************************************************************)
EXTENDS Integers, Sequences, FiniteSets, TLC

VARIABLES
    pc,                    \* position in the function being run
    sig,                   \* outcome of each re.search of detect_cooking_methods on the text
    has_primary_stovetop,  \* local of detect_cooking_methods
    transfers_to_other,    \* local of detect_cooking_methods
    methods,               \* methods dict: the four boolean flags
    primary_method,        \* methods["primary_method"], later the local primary_method
    data,                  \* data dict of scrape_recipe: the time fields and methodWarning
    cook_time,             \* local cook_time of scrape_recipe (the provider's value)
    stovetop_time,         \* local of scrape_recipe
    slow_cooker_time,      \* local of scrape_recipe
    instant_pot_time,      \* local of scrape_recipe
    search_text,           \* extract_stovetop_time_from_instructions: the text searched
    pattern_no,            \* index of the stovetop_time_patterns entry the loop is at
    found_times_with_pos,  \* dict position -> minutes
    counted,               \* for each dict insertion, the token that supplied the minutes
    result                 \* return value of extract_stovetop_time_from_instructions

vars == <<pc, sig, has_primary_stovetop, transfers_to_other, methods, primary_method,
          data, cook_time, stovetop_time, slow_cooker_time, instant_pot_time,
          search_text, pattern_no, found_times_with_pos, counted, result>>

detectVars == <<sig, has_primary_stovetop, transfers_to_other, methods, primary_method>>
scrapeVars == <<data, cook_time, stovetop_time, slow_cooker_time, instant_pot_time>>
extractVars == <<search_text, pattern_no, found_times_with_pos, counted, result>>

----------------------------------------------------------------------------
(* Python values *)

None == <<>>
Some(v) == <<v>>
Val(x) == x[1]
Opt(S) == {None} \cup {Some(v) : v \in S}

\* Python truthiness of an optional integer: None and 0 are false
Truthy(x) == x # None /\ Val(x) # 0

Min(a, b) == IF a < b THEN a ELSE b
Max(a, b) == IF a > b THEN a ELSE b

----------------------------------------------------------------------------
(* detect_cooking_methods *)

MethodNames == {"instant_pot", "slow_cooker", "stovetop", "oven"}

\* the regex families whose re.search outcome on the text the function reads
SignalNames == {"instant_pot", "slow_cooker", "primary", "secondary", "general", "oven"}
Signals == [SignalNames -> BOOLEAN]

NoMethods == [m \in MethodNames |-> FALSE]

ResolveStovetopFlag_IgnoreTransfer(m, hasPrimary, transfers) ==
    IF hasPrimary THEN TRUE ELSE m["stovetop"]

\* lines 95-100: only mark as stovetop if it is a primary cooking method
ResolveStovetopFlag(m, hasPrimary, transfers) ==
    IF hasPrimary /\ ~(m["slow_cooker"] \/ m["instant_pot"])
    THEN TRUE
    ELSE IF hasPrimary /\ ~transfers
         THEN TRUE
         ELSE m["stovetop"]

\* lines 102-114: general stovetop for recipes without slow cooker / instant pot
GeneralStovetopFlag(m, general) ==
    IF ~m["slow_cooker"] /\ ~m["instant_pot"]
    THEN (IF general THEN TRUE ELSE m["stovetop"])
    ELSE m["stovetop"]

\* line 135: sum(1 for k, v in methods.items() if v); primary_method is still None
MethodCount(m) == Cardinality({k \in MethodNames : m[k]})

PrimaryMethod_OvenFirst(m) ==
    IF m["oven"] THEN Some("oven")
    ELSE IF m["stovetop"] THEN Some("stovetop")
    ELSE IF m["slow_cooker"] THEN Some("slow_cooker")
    ELSE IF m["instant_pot"] THEN Some("instant_pot")
    ELSE None

\* lines 137-147
PrimaryMethod(m) ==
    IF MethodCount(m) > 1 /\ m["stovetop"] THEN Some("stovetop")
    ELSE IF m["stovetop"] THEN Some("stovetop")
    ELSE IF m["oven"] THEN Some("oven")
    ELSE IF m["slow_cooker"] THEN Some("slow_cooker")
    ELSE IF m["instant_pot"] THEN Some("instant_pot")
    ELSE None

\* the flags detect_cooking_methods returns for a text with regex outcomes s
DetectFlags(s) ==
    LET m1 == [NoMethods EXCEPT !["instant_pot"] = s["instant_pot"],
                                !["slow_cooker"] = s["slow_cooker"]]
        m2 == [m1 EXCEPT !["stovetop"] = ResolveStovetopFlag(m1, s["primary"], s["secondary"])]
        m3 == [m2 EXCEPT !["stovetop"] = GeneralStovetopFlag(m2, s["general"])]
    IN  [m3 EXCEPT !["oven"] = s["oven"]]

IdleDetect ==
    /\ sig = [n \in SignalNames |-> FALSE]
    /\ has_primary_stovetop = FALSE
    /\ transfers_to_other = FALSE
    /\ methods = NoMethods
    /\ primary_method = None

IdleData == [prepTime |-> None, cookTime |-> None, totalTime |-> None, methodWarning |-> None]

IdleScrape ==
    /\ data = IdleData
    /\ cook_time = None
    /\ stovetop_time = None
    /\ slow_cooker_time = None
    /\ instant_pot_time = None

IdleExtract ==
    /\ search_text = <<>>
    /\ pattern_no = 0
    /\ found_times_with_pos = <<>>
    /\ counted = <<>>
    /\ result = None

InitDetect ==
    /\ pc = "instant_pot"
    /\ sig \in Signals
    /\ has_primary_stovetop = FALSE
    /\ transfers_to_other = FALSE
    /\ methods = NoMethods
    /\ primary_method = None
    /\ IdleScrape
    /\ IdleExtract

\* lines 38-52
SearchInstantPot ==
    /\ pc = "instant_pot"
    /\ methods' = [methods EXCEPT !["instant_pot"] = sig["instant_pot"]]
    /\ pc' = "slow_cooker"
    /\ UNCHANGED <<sig, has_primary_stovetop, transfers_to_other, primary_method>>
    /\ UNCHANGED <<scrapeVars, extractVars>>

\* lines 54-64
SearchSlowCooker ==
    /\ pc = "slow_cooker"
    /\ methods' = [methods EXCEPT !["slow_cooker"] = sig["slow_cooker"]]
    /\ pc' = "stovetop_signals"
    /\ UNCHANGED <<sig, has_primary_stovetop, transfers_to_other, primary_method>>
    /\ UNCHANGED <<scrapeVars, extractVars>>

\* lines 82-93
SearchStovetopSignals ==
    /\ pc = "stovetop_signals"
    /\ has_primary_stovetop' = sig["primary"]
    /\ transfers_to_other' = sig["secondary"]
    /\ pc' = "resolve_stovetop"
    /\ UNCHANGED <<sig, methods, primary_method>>
    /\ UNCHANGED <<scrapeVars, extractVars>>

\* lines 95-100
ResolveStovetop ==
    /\ pc = "resolve_stovetop"
    /\ methods' = [methods EXCEPT !["stovetop"] =
                       ResolveStovetopFlag(methods, has_primary_stovetop, transfers_to_other)]
    /\ pc' = "general_stovetop"
    /\ UNCHANGED <<sig, has_primary_stovetop, transfers_to_other, primary_method>>
    /\ UNCHANGED <<scrapeVars, extractVars>>

\* lines 102-114
GeneralStovetop ==
    /\ pc = "general_stovetop"
    /\ methods' = [methods EXCEPT !["stovetop"] = GeneralStovetopFlag(methods, sig["general"])]
    /\ pc' = "oven"
    /\ UNCHANGED <<sig, has_primary_stovetop, transfers_to_other, primary_method>>
    /\ UNCHANGED <<scrapeVars, extractVars>>

\* lines 116-126
SearchOven ==
    /\ pc = "oven"
    /\ methods' = [methods EXCEPT !["oven"] = sig["oven"]]
    /\ pc' = "primary"
    /\ UNCHANGED <<sig, has_primary_stovetop, transfers_to_other, primary_method>>
    /\ UNCHANGED <<scrapeVars, extractVars>>

\* lines 134-149
DeterminePrimary ==
    /\ pc = "primary"
    /\ primary_method' = PrimaryMethod(methods)
    /\ pc' = "detected"
    /\ UNCHANGED <<sig, has_primary_stovetop, transfers_to_other, methods>>
    /\ UNCHANGED <<scrapeVars, extractVars>>

NextDetect ==
    \/ SearchInstantPot
    \/ SearchSlowCooker
    \/ SearchStovetopSignals
    \/ ResolveStovetop
    \/ GeneralStovetop
    \/ SearchOven
    \/ DeterminePrimary

SpecDetect == InitDetect /\ [][NextDetect]_vars

----------------------------------------------------------------------------
(* scrape_recipe: provider times, sanity check, derivation, method branch *)

\* window around the numeric thresholds (1440, 10) from which test values are drawn
Margin == 1
\* provider prep and total times are multiples of 15 minutes up to 15 * MaxQuarters
MaxQuarters == 3

MaxCookTime == 1440
MinStovetopTime == 10

PrepTimes == Opt({15 * k : k \in 0..(MaxQuarters - 1)})
TotalTimes == Opt({15 * k : k \in 0..MaxQuarters})
CookTimes == Opt({0, 30, 2000} \cup ((MaxCookTime - Margin)..(MaxCookTime + Margin)))

\* extract_stovetop_time_from_instructions returns None or 0..90
StovetopEstimates == Opt({0, 25, 90} \cup ((MinStovetopTime - Margin)..(MinStovetopTime + Margin)))
\* extract_slow_cooker_time returns None or hours * 60
SlowCookerEstimates == Opt({0, 6 * 60})
\* extract_instant_pot_time returns None or the minutes
InstantPotEstimates == Opt({0, 10})

\* lines 347-356: scraper.cook_time() raising leaves data["cookTime"] None as well
SanityCookTime(ct) ==
    IF Truthy(ct) /\ Val(ct) <= MaxCookTime THEN ct
    ELSE None

DerivedCookTime_AcceptZero(d) ==
    IF d.cookTime = None /\ Truthy(d.totalTime) /\ Truthy(d.prepTime)
    THEN (IF Val(d.totalTime) - Val(d.prepTime) >= 0
          THEN Some(Val(d.totalTime) - Val(d.prepTime))
          ELSE d.cookTime)
    ELSE d.cookTime

\* lines 363-367
DerivedCookTime(d) ==
    IF d.cookTime = None /\ Truthy(d.totalTime) /\ Truthy(d.prepTime)
    THEN (IF Val(d.totalTime) - Val(d.prepTime) > 0
          THEN Some(Val(d.totalTime) - Val(d.prepTime))
          ELSE d.cookTime)
    ELSE d.cookTime

\* line 404
HasMultipleMethods(m) == MethodCount(m) > 1
\* line 405
HasSpecialAppliance(m) == m["instant_pot"] \/ m["slow_cooker"]

StovetopBranch_NoAppliance(pm, m) ==
    pm = Some("stovetop") /\ HasMultipleMethods(m)

\* line 408
StovetopBranch(pm, m) ==
    pm = Some("stovetop") /\ HasMultipleMethods(m) /\ HasSpecialAppliance(m)

\* line 410
StovetopTimeUsable(st) == Truthy(st) /\ Val(st) > MinStovetopTime

\* lines 413-416 and 437-440
RecomputedTotal(prep, cook) ==
    IF Truthy(prep) THEN Some(Val(prep) + cook) ELSE Some(cook)

RECURSIVE Join(_, _)
\* sep.join(parts)
Join(parts, sep) ==
    IF parts = <<>> THEN ""
    ELSE IF Len(parts) = 1 THEN parts[1]
    ELSE parts[1] \o sep \o Join(Tail(parts), sep)

\* lines 419-424
OtherMethods(m, ipTime, scTime) ==
    (IF m["instant_pot"]
     THEN <<IF Truthy(ipTime) THEN "Instant Pot (" \o ToString(Val(ipTime)) \o "min)"
            ELSE "Instant Pot">>
     ELSE <<>>)
    \o
    (IF m["slow_cooker"]
     THEN <<"Slow Cooker (" \o (IF Truthy(scTime) THEN ToString(Val(scTime) \div 60) ELSE "?")
            \o "hr)">>
     ELSE <<>>)

\* lines 425-426
StovetopWarning(st, others) ==
    "Using STOVETOP time (" \o ToString(st) \o "min). Also available: " \o Join(others, ", ")

\* line 429
NoStovetopTimeWarning ==
    "Multiple methods available but couldn't extract stovetop time. Check instructions."

\* lines 434-435 (the leading warning sign of the message is left out)
SlowCookerWarning(scTime) ==
    "SLOW COOKER recipe (" \o ToString(scTime \div 60)
        \o " hours). Plan ahead or find a stovetop alternative."

\* line 442
SlowCookerNoTimeWarning ==
    "SLOW COOKER recipe detected. Check instructions for actual cook time."

\* lines 446-447
InstantPotWarning(ipTime, cookTime) ==
    "INSTANT POT recipe ("
        \o (IF Truthy(ipTime) THEN ToString(Val(ipTime))
            ELSE IF Truthy(cookTime) THEN ToString(Val(cookTime))
            ELSE "?")
        \o "min pressure). No stovetop alternative found."

InitScrape ==
    /\ pc = "prep_time"
    /\ IdleDetect
    /\ IdleScrape
    /\ IdleExtract

\* lines 342-345
LoadPrepTime ==
    /\ pc = "prep_time"
    /\ \E v \in PrepTimes : data' = [data EXCEPT !.prepTime = v]
    /\ pc' = "cook_time"
    /\ UNCHANGED <<cook_time, stovetop_time, slow_cooker_time, instant_pot_time>>
    /\ UNCHANGED <<detectVars, extractVars>>

\* lines 347-356
LoadCookTime ==
    /\ pc = "cook_time"
    /\ \E v \in CookTimes :
          /\ cook_time' = v
          /\ data' = [data EXCEPT !.cookTime = SanityCookTime(v)]
    /\ pc' = "total_time"
    /\ UNCHANGED <<stovetop_time, slow_cooker_time, instant_pot_time>>
    /\ UNCHANGED <<detectVars, extractVars>>

\* lines 358-361
LoadTotalTime ==
    /\ pc = "total_time"
    /\ \E v \in TotalTimes : data' = [data EXCEPT !.totalTime = v]
    /\ pc' = "derive"
    /\ UNCHANGED <<cook_time, stovetop_time, slow_cooker_time, instant_pot_time>>
    /\ UNCHANGED <<detectVars, extractVars>>

\* lines 363-367
DeriveCookTime ==
    /\ pc = "derive"
    /\ data' = [data EXCEPT !.cookTime = DerivedCookTime(data)]
    /\ pc' = "detect"
    /\ UNCHANGED <<cook_time, stovetop_time, slow_cooker_time, instant_pot_time>>
    /\ UNCHANGED <<detectVars, extractVars>>

\* lines 392-396: the call of detect_cooking_methods and the pop of primary_method
DetectMethods ==
    /\ pc = "detect"
    /\ \E s \in Signals :
          /\ methods' = DetectFlags(s)
          /\ primary_method' = PrimaryMethod(DetectFlags(s))
    /\ pc' = "extract"
    /\ UNCHANGED <<sig, has_primary_stovetop, transfers_to_other>>
    /\ UNCHANGED <<scrapeVars, extractVars>>

\* lines 398-401
ExtractTimes ==
    /\ pc = "extract"
    /\ stovetop_time' \in StovetopEstimates
    /\ slow_cooker_time' \in SlowCookerEstimates
    /\ instant_pot_time' \in InstantPotEstimates
    /\ pc' = "branch"
    /\ UNCHANGED <<data, cook_time>>
    /\ UNCHANGED <<detectVars, extractVars>>

\* lines 410-426
UseStovetopTime ==
    /\ pc = "branch"
    /\ StovetopBranch(primary_method, methods)
    /\ StovetopTimeUsable(stovetop_time)
    /\ data' = [data EXCEPT
                  !.cookTime = stovetop_time,
                  !.totalTime = RecomputedTotal(data.prepTime, Val(stovetop_time)),
                  !.methodWarning = Some(StovetopWarning(Val(stovetop_time),
                        OtherMethods(methods, instant_pot_time, slow_cooker_time)))]
    /\ pc' = "returned"
    /\ UNCHANGED <<cook_time, stovetop_time, slow_cooker_time, instant_pot_time>>
    /\ UNCHANGED <<detectVars, extractVars>>

\* lines 427-429
NoStovetopTime ==
    /\ pc = "branch"
    /\ StovetopBranch(primary_method, methods)
    /\ ~StovetopTimeUsable(stovetop_time)
    /\ data' = [data EXCEPT !.methodWarning = Some(NoStovetopTimeWarning)]
    /\ pc' = "returned"
    /\ UNCHANGED <<cook_time, stovetop_time, slow_cooker_time, instant_pot_time>>
    /\ UNCHANGED <<detectVars, extractVars>>

\* lines 431-440
UseSlowCookerTime ==
    /\ pc = "branch"
    /\ ~StovetopBranch(primary_method, methods)
    /\ primary_method = Some("slow_cooker")
    /\ Truthy(slow_cooker_time)
    /\ data' = [data EXCEPT
                  !.methodWarning = Some(SlowCookerWarning(Val(slow_cooker_time))),
                  !.cookTime = slow_cooker_time,
                  !.totalTime = RecomputedTotal(data.prepTime, Val(slow_cooker_time))]
    /\ pc' = "returned"
    /\ UNCHANGED <<cook_time, stovetop_time, slow_cooker_time, instant_pot_time>>
    /\ UNCHANGED <<detectVars, extractVars>>

\* lines 441-442
SlowCookerNoTime ==
    /\ pc = "branch"
    /\ ~StovetopBranch(primary_method, methods)
    /\ primary_method = Some("slow_cooker")
    /\ ~Truthy(slow_cooker_time)
    /\ data' = [data EXCEPT !.methodWarning = Some(SlowCookerNoTimeWarning)]
    /\ pc' = "returned"
    /\ UNCHANGED <<cook_time, stovetop_time, slow_cooker_time, instant_pot_time>>
    /\ UNCHANGED <<detectVars, extractVars>>

\* lines 444-447
InstantPotOnly ==
    /\ pc = "branch"
    /\ ~StovetopBranch(primary_method, methods)
    /\ primary_method = Some("instant_pot")
    /\ data' = [data EXCEPT
                  !.methodWarning = Some(InstantPotWarning(instant_pot_time, data.cookTime))]
    /\ pc' = "returned"
    /\ UNCHANGED <<cook_time, stovetop_time, slow_cooker_time, instant_pot_time>>
    /\ UNCHANGED <<detectVars, extractVars>>

\* lines 408-449 when no branch of the if/elif chain is taken
NoMethodBranch ==
    /\ pc = "branch"
    /\ ~StovetopBranch(primary_method, methods)
    /\ primary_method \notin {Some("slow_cooker"), Some("instant_pot")}
    /\ pc' = "returned"
    /\ UNCHANGED <<scrapeVars, detectVars, extractVars>>

Next ==
    \/ LoadPrepTime
    \/ LoadCookTime
    \/ LoadTotalTime
    \/ DeriveCookTime
    \/ DetectMethods
    \/ ExtractTimes
    \/ UseStovetopTime
    \/ NoStovetopTime
    \/ UseSlowCookerTime
    \/ SlowCookerNoTime
    \/ InstantPotOnly
    \/ NoMethodBranch

Spec == InitScrape /\ [][Next]_vars

----------------------------------------------------------------------------
(* extract_stovetop_time_from_instructions, lines 201-262                  *)
(*                                                                         *)
(* The search text is a sequence of words separated by single spaces; a    *)
(* word is its sequence of characters.  Character offsets are 0-based, as  *)
(* in Python.                                                              *)

\* longest search text, in words
MaxLen == 5

\* line 235: the exclusion window reaches 30 characters back and 10 forward
ExcludeBefore == 30
ExcludeAfter == 10
\* line 248
MaxStepMinutes == 60
\* line 260
MaxStovetopTotal == 90

SIMMER == <<"s", "i", "m", "m", "e", "r">>
COOK == <<"c", "o", "o", "k">>
FOR == <<"f", "o", "r">>
\* saut followed by an optional e-acute
SAUT == <<"s", "a", "u", "t">>
STIRRING == <<"s", "t", "i", "r", "r", "i", "n", "g">>
OCCASIONALLY == <<"o", "c", "c", "a", "s", "i", "o", "n", "a", "l", "l", "y">>
VEGGIE == <<"v", "e", "g", "g", "i", "e">>
VEGGIES == <<"v", "e", "g", "g", "i", "e", "s">>
ARE == <<"a", "r", "e">>
TENDER == <<"t", "e", "n", "d", "e", "r">>
REST == <<"r", "e", "s", "t">>
TO == <<"t", "o">>
MINUTES == <<"m", "i", "n", "u", "t", "e", "s">>

\* the words search texts are made of
Words == {SIMMER, COOK, REST, TO, MINUTES, <<"5", "0">>, <<"1", "5", "0">>}

Texts == UNION {[1..n -> Words] : n \in 0..MaxLen}

DigitChars == <<"0", "1", "2", "3", "4", "5", "6", "7", "8", "9">>

IsDigit(c) == \E d \in 1..10 : DigitChars[d] = c
DigitValue(c) == (CHOOSE d \in 1..10 : DigitChars[d] = c) - 1

\* \d+ matches the whole word
IsNumber(w) == Len(w) > 0 /\ \A k \in 1..Len(w) : IsDigit(w[k])

RECURSIVE ParseInt(_)
\* int(group)
ParseInt(w) ==
    IF Len(w) = 0 THEN 0
    ELSE 10 * ParseInt(SubSeq(w, 1, Len(w) - 1)) + DigitValue(w[Len(w)])

RECURSIVE Str(_)
\* str(mins)
Str(n) ==
    IF n < 10 THEN <<DigitChars[n + 1]>>
    ELSE Str(n \div 10) \o <<DigitChars[(n % 10) + 1]>>

RECURSIVE JoinWords(_, _, _)
\* the characters of words a..b of the text, joined by single spaces
JoinWords(text, a, b) ==
    IF a > b THEN <<>>
    ELSE IF a = b THEN text[a]
    ELSE text[a] \o <<" ">> \o JoinWords(text, a + 1, b)

\* offset of the first character of word i
WordStart(text, i) == IF i = 1 THEN 0 ELSE Len(JoinWords(text, 1, i - 1)) + 1
\* offset just past the last character of word i
WordEnd(text, i) == WordStart(text, i) + Len(text[i])

NoDuration == [found |-> FALSE, groups |-> <<None, None>>, source |-> 0, last |-> 0]

\* (\d+)(?:\s*(?:to|-)\s*(\d+))?\s*minutes?  with (\d+) at word j  (lines 207-210)
Duration(text, j) ==
    IF j > Len(text) \/ ~IsNumber(text[j]) THEN NoDuration
    ELSE IF /\ j + 3 <= Len(text)
            /\ text[j + 1] = TO
            /\ IsNumber(text[j + 2])
            /\ text[j + 3] = MINUTES
         THEN [found |-> TRUE, groups |-> <<Some(text[j]), Some(text[j + 2])>>,
               source |-> j + 2, last |-> j + 3]
    ELSE IF j + 1 <= Len(text) /\ text[j + 1] = MINUTES
         THEN [found |-> TRUE, groups |-> <<Some(text[j]), None>>,
               source |-> j, last |-> j + 1]
    ELSE NoDuration

\* lines 206-211: the word sequences a pattern may start with, and whether a lazy .*?
\* separates them from the number.  The optional words the lazy .*? absorbs anyway
\* (until, about) are not listed.
stovetop_time_patterns ==
    << [heads |-> {<<SIMMER>>}, gap |-> TRUE],
       [heads |-> {<<COOK>>, <<COOK, FOR>>}, gap |-> FALSE],
       [heads |-> {<<SAUT>>, <<SAUT, FOR>>}, gap |-> FALSE],
       [heads |-> {<<VEGGIE, ARE, TENDER>>, <<VEGGIES, ARE, TENDER>>,
                   <<STIRRING, OCCASIONALLY>>}, gap |-> TRUE] >>

\* the word sequence h stands at word i
HeadAt(text, h, i) ==
    /\ i + Len(h) - 1 <= Len(text)
    /\ \A k \in 1..Len(h) : text[i + k - 1] = h[k]

\* the words at which the number of a match starting at word i may stand
NumberSlots(text, pat, i) ==
    UNION {IF pat.gap THEN (i + Len(h))..Len(text) ELSE {i + Len(h)} :
              h \in {g \in pat.heads : HeadAt(text, g, i)}}

SetMin(S) == CHOOSE x \in S : \A y \in S : x <= y

MatchStarts(text, pat, from) ==
    {i \in from..Len(text) :
        \E j \in NumberSlots(text, pat, i) : Duration(text, j).found}

\* the leftmost match at or after word `from`; the lazy .*? stops at the first number
\* that a duration follows
FirstMatch(text, pat, from) ==
    LET i == SetMin(MatchStarts(text, pat, from))
        j == SetMin({k \in NumberSlots(text, pat, i) : Duration(text, k).found})
        d == Duration(text, j)
    IN  [start |-> i, groups |-> d.groups, source |-> d.source, last |-> d.last]

RECURSIVE FindIter(_, _, _)
\* re.finditer(pattern, search_text): the non-overlapping matches, left to right
FindIter(text, pat, from) ==
    IF MatchStarts(text, pat, from) = {} THEN <<>>
    ELSE LET m == FirstMatch(text, pat, from)
         IN  <<m>> \o FindIter(text, pat, m.last + 1)

TextLength(text) == Len(JoinWords(text, 1, Len(text)))

\* lines 234-241: of exclude_patterns only rest\s+(?:for\s+)?(?:about\s+)?(\d+) can
\* match text made of Words
IsExcluded(text, m) ==
    LET lo == Max(0, WordStart(text, m.start) - ExcludeBefore)
        hi == Min(TextLength(text), WordEnd(text, m.last) + ExcludeAfter)
    IN  \E k \in 1..(Len(text) - 1) :
            /\ text[k] = REST
            /\ IsNumber(text[k + 1])
            /\ WordStart(text, k) >= lo
            /\ WordStart(text, k + 1) + 1 <= hi

\* line 247: take the higher end of the range if available
Minutes(m) ==
    IF m.groups[2] # None THEN ParseInt(Val(m.groups[2])) ELSE ParseInt(Val(m.groups[1]))

\* line 248: only steps of at most an hour count; None when the step is dropped
StepMinutes(mins) == IF mins <= MaxStepMinutes THEN Some(mins) ELSE None

\* re.search(needle, hay).start(), or -1 when there is no occurrence
Find(needle, hay) ==
    LET hits == {k \in 0..(Len(hay) - Len(needle)) :
                    SubSeq(hay, k + 1, k + Len(needle)) = needle}
    IN  IF hits = {} THEN -1 ELSE SetMin(hits)

\* lines 250-252
NumPos(text, m, mins) ==
    WordStart(text, m.start) + Find(Str(mins), JoinWords(text, m.start, m.last))

\* found_times_with_pos as a function; the empty dict
EmptyDict == [p \in {} |-> 0]

RECURSIVE AddMatches(_, _, _)
\* lines 232-255 for the matches ms of one pattern; st is [found, counted]
AddMatches(text, ms, st) ==
    IF ms = <<>> THEN st
    ELSE LET m == Head(ms)
             mins == Minutes(m)
             pos == NumPos(text, m, mins)
             taken == /\ ~IsExcluded(text, m)
                      /\ StepMinutes(mins) # None
                      /\ pos \notin DOMAIN st.found
             next == IF taken
                     THEN [found |-> (pos :> Val(StepMinutes(mins))) @@ st.found,
                           counted |-> Append(st.counted, m.source)]
                     ELSE st
         IN  AddMatches(text, Tail(ms), next)

RECURSIVE SumValues(_, _)
\* sum(found_times_with_pos.values())
SumValues(f, S) ==
    IF S = {} THEN 0
    ELSE LET p == CHOOSE x \in S : TRUE
         IN  f[p] + SumValues(f, S \ {p})

ClampTotal_Unclamped(total) == total

\* line 260
ClampTotal(total) == Min(total, MaxStovetopTotal)

InitExtract ==
    /\ pc = "scan"
    /\ search_text \in Texts
    /\ pattern_no = 1
    /\ found_times_with_pos = EmptyDict
    /\ counted = <<>>
    /\ result = None
    /\ IdleDetect
    /\ IdleScrape

\* lines 230-255: one iteration of the loop over stovetop_time_patterns
ScanPattern ==
    /\ pc = "scan"
    /\ pattern_no <= Len(stovetop_time_patterns)
    /\ LET after == AddMatches(search_text,
                               FindIter(search_text, stovetop_time_patterns[pattern_no], 1),
                               [found |-> found_times_with_pos, counted |-> counted])
       IN  /\ found_times_with_pos' = after.found
           /\ counted' = after.counted
    /\ pattern_no' = pattern_no + 1
    /\ pc' = IF pattern_no = Len(stovetop_time_patterns) THEN "total" ELSE "scan"
    /\ UNCHANGED <<search_text, result>>
    /\ UNCHANGED <<detectVars, scrapeVars>>

\* lines 257-262
ReturnTotal ==
    /\ pc = "total"
    /\ result' = IF DOMAIN found_times_with_pos # {}
                 THEN Some(ClampTotal(SumValues(found_times_with_pos,
                                                DOMAIN found_times_with_pos)))
                 ELSE None
    /\ pc' = "extracted"
    /\ UNCHANGED <<search_text, pattern_no, found_times_with_pos, counted>>
    /\ UNCHANGED <<detectVars, scrapeVars>>

NextExtract ==
    \/ ScanPattern
    \/ ReturnTotal

SpecExtract == InitExtract /\ [][NextExtract]_vars

----------------------------------------------------------------------------
(* Claims *)

Present(x) == x # None

\* the order in which the primary method is looked for
MethodOrder == <<"stovetop", "oven", "slow_cooker", "instant_pot">>

\* C1: primary_method is the first flagged method in the order stovetop, oven,
\* slow_cooker, instant_pot; it is absent exactly when no method is flagged, and when
\* present it names a method whose flag is true.
C1_PrimaryIsFirstFlagged ==
    pc = "detected" =>
        /\ \A k \in 1..4 :
              (methods[MethodOrder[k]] /\ \A j \in 1..(k - 1) : ~methods[MethodOrder[j]])
                  => primary_method = Some(MethodOrder[k])
        /\ (primary_method = None <=> \A n \in MethodNames : ~methods[n])
        /\ (Present(primary_method) => methods[Val(primary_method)])

\* C1: stovetop and oven are both flagged and stovetop is the primary method
C1_Witness ==
    /\ pc = "detected"
    /\ methods["stovetop"]
    /\ methods["oven"]
    /\ primary_method = Some("stovetop")

\* C9: with P, T, F the primary, transfer and fallback signals and A = slow cooker or
\* instant pot flagged, the stovetop flag is (P and (not A or not T)) or (not A and F);
\* when A and T hold, stovetop is not flagged and is not the primary method, and the
\* two-phase slow cooker recipe has primary method slow_cooker.
C9_StovetopFlagTable ==
    LET P == sig["primary"]
        T == sig["secondary"]
        F == sig["general"]
        A == sig["slow_cooker"] \/ sig["instant_pot"]
    IN  /\ pc \in {"oven", "primary", "detected"} =>
              (methods["stovetop"] <=> ((P /\ (~A \/ ~T)) \/ (~A /\ F)))
        /\ (pc = "detected" /\ A /\ T) =>
              (~methods["stovetop"] /\ primary_method # Some("stovetop"))
        /\ (pc = "detected" /\ sig["slow_cooker"] /\ ~sig["instant_pot"] /\ ~sig["oven"]
               /\ T /\ F /\ ~P) => primary_method = Some("slow_cooker")

\* C9: the two-phase recipe: slow cooker and a transfer signal, a primary stovetop
\* signal as well, and the primary method is slow_cooker
C9_Witness ==
    /\ pc = "detected"
    /\ sig["slow_cooker"]
    /\ sig["secondary"]
    /\ sig["primary"]
    /\ sig["general"]
    /\ ~sig["oven"]
    /\ ~methods["stovetop"]
    /\ primary_method = Some("slow_cooker")

\* the override condition as the claims state it: a special appliance is flagged and
\* the stovetop estimate is present and above 10
OverrideCondition ==
    /\ (methods["instant_pot"] \/ methods["slow_cooker"])
    /\ Present(stovetop_time)
    /\ Val(stovetop_time) > 10

FlaggedCount == Cardinality({n \in MethodNames : methods[n]})

TimesKept ==
    /\ data'.cookTime = data.cookTime
    /\ data'.totalTime = data.totalTime
    /\ data'.prepTime = data.prepTime

\* C2 as stated: primary stovetop, more than one method flagged, override condition
\* not satisfied: the "no reliable stovetop time" warning is emitted and cookTime and
\* totalTime are unchanged, for every such flag combination.
C2_Original ==
    [][(pc = "branch" /\ primary_method = Some("stovetop") /\ FlaggedCount > 1
           /\ ~OverrideCondition)
        => (/\ data'.methodWarning = Some(NoStovetopTimeWarning)
            /\ data'.cookTime = data.cookTime
            /\ data'.totalTime = data.totalTime)]_vars

\* C2 amended: primary stovetop, more than one method flagged, override condition not
\* satisfied: cookTime and totalTime are unchanged; the warning is emitted when
\* instant_pot or slow_cooker is flagged, and no warning is emitted when neither is.
C2_Amended ==
    [][(pc = "branch" /\ primary_method = Some("stovetop") /\ FlaggedCount > 1
           /\ ~OverrideCondition)
        => (/\ data'.cookTime = data.cookTime
            /\ data'.totalTime = data.totalTime
            /\ (methods["instant_pot"] \/ methods["slow_cooker"])
                  => data'.methodWarning = Some(NoStovetopTimeWarning)
            /\ ~(methods["instant_pot"] \/ methods["slow_cooker"])
                  => data'.methodWarning = None)]_vars

\* C2: stovetop primary with the instant pot flagged and a stovetop estimate of 10,
\* after the branch emitted the warning
C2_Witness ==
    /\ pc = "returned"
    /\ primary_method = Some("stovetop")
    /\ methods["instant_pot"]
    /\ stovetop_time = Some(10)
    /\ data.methodWarning = Some(NoStovetopTimeWarning)

\* C3: with cookTime absent after the sanity step and totalTime and prepTime both
\* present (any non-negative values, prepTime = 0 included), cookTime becomes
\* totalTime - prepTime when that is strictly positive and stays absent otherwise; in
\* every other case the derivation step changes nothing.
C3_Claim ==
    [][pc = "derive" =>
          data'.cookTime =
              IF data.cookTime = None /\ Present(data.totalTime) /\ Present(data.prepTime)
              THEN (IF Val(data.totalTime) - Val(data.prepTime) > 0
                    THEN Some(Val(data.totalTime) - Val(data.prepTime))
                    ELSE None)
              ELSE data.cookTime]_vars

\* C4: a provider cookTime above 1440 is absent after the sanity step and never is the
\* final cookTime; a provider cookTime of at most 1440 is kept as given; provider
\* cookTime 2000 with prepTime 15 and totalTime 45 yields cookTime 30.
C4_Claim ==
    /\ pc \in {"total_time", "derive"} =>
          data.cookTime = (IF Present(cook_time) /\ Val(cook_time) > 1440
                           THEN None ELSE cook_time)
    /\ (pc \notin {"prep_time", "cook_time"} /\ Present(cook_time) /\ Val(cook_time) > 1440)
          => data.cookTime # cook_time
    /\ (pc = "detect" /\ cook_time = Some(2000) /\ data.prepTime = Some(15)
           /\ data.totalTime = Some(45)) => data.cookTime = Some(30)

\* the alternatives list as C5 states it
C5_Alternatives ==
    (IF methods["instant_pot"]
     THEN <<IF Present(instant_pot_time)
            THEN "Instant Pot (" \o ToString(Val(instant_pot_time)) \o "min)"
            ELSE "Instant Pot">>
     ELSE <<>>)
    \o
    (IF methods["slow_cooker"]
     THEN <<IF Present(slow_cooker_time)
            THEN "Slow Cooker (" \o ToString(Val(slow_cooker_time) \div 60) \o "hr)"
            ELSE "Slow Cooker (?hr)">>
     ELSE <<>>)

\* C5: primary stovetop, more than one method flagged and the override condition
\* satisfied: cookTime becomes the stovetop estimate, totalTime becomes prepTime +
\* cookTime (cookTime when prepTime is absent), and the warning names the stovetop
\* minutes and lists the flagged special appliances, each with its estimate when it has
\* one: "Instant Pot (Ymin)" or bare "Instant Pot", "Slow Cooker (Zhr)" or "(?hr)".
C5_Claim ==
    [][(pc = "branch" /\ primary_method = Some("stovetop") /\ FlaggedCount > 1
           /\ OverrideCondition)
        => (/\ data'.cookTime = stovetop_time
            /\ data'.totalTime =
                  (IF Present(data.prepTime)
                   THEN Some(Val(data.prepTime) + Val(stovetop_time))
                   ELSE stovetop_time)
            /\ data'.methodWarning =
                  Some("Using STOVETOP time (" \o ToString(Val(stovetop_time))
                       \o "min). Also available: " \o Join(C5_Alternatives, ", ")))]_vars

\* C6: every cookTime or totalTime the reconciler writes itself (the derived cookTime,
\* the cookTime overridden by the stovetop or slow cooker estimate, the totalTime
\* recomputed after an override) is a strictly positive integer.
C6_WrittenTimesPositive ==
    [][/\ (pc = "derive" /\ data'.cookTime # data.cookTime)
            => (Present(data'.cookTime) /\ Val(data'.cookTime) \in Nat \ {0})
       /\ (UseStovetopTime \/ UseSlowCookerTime)
            => (/\ Present(data'.cookTime) /\ Val(data'.cookTime) \in Nat \ {0}
                /\ Present(data'.totalTime) /\ Val(data'.totalTime) \in Nat \ {0})]_vars

\* C6: a slow cooker recipe whose cookTime and totalTime were overridden with the
\* estimate, next to a provider prepTime of 0
C6_Witness ==
    /\ pc = "returned"
    /\ primary_method = Some("slow_cooker")
    /\ slow_cooker_time = Some(360)
    /\ data.prepTime = Some(0)
    /\ data.cookTime = Some(360)
    /\ data.totalTime = Some(360)

\* C7: with primary method oven, instant_pot or absent the branch leaves cookTime,
\* totalTime and prepTime as they were; for oven or absent there is no warning; for
\* instant_pot there is a warning, citing the instant pot estimate if there is one,
\* otherwise the existing cookTime.
C7_Claim ==
    [][(pc = "branch" /\ primary_method \in {Some("oven"), Some("instant_pot"), None})
        => (/\ TimesKept
            /\ primary_method # Some("instant_pot") => data'.methodWarning = None
            /\ primary_method = Some("instant_pot") =>
                  /\ Present(data'.methodWarning)
                  /\ Present(instant_pot_time) =>
                        data'.methodWarning =
                            Some("INSTANT POT recipe (" \o ToString(Val(instant_pot_time))
                                 \o "min pressure). No stovetop alternative found.")
                  /\ (~Present(instant_pot_time) /\ Present(data.cookTime)) =>
                        data'.methodWarning =
                            Some("INSTANT POT recipe (" \o ToString(Val(data.cookTime))
                                 \o "min pressure). No stovetop alternative found."))]_vars

\* some candidate of the search text survives: a match of one of the patterns that is
\* not excluded and whose minutes are at most 60
CandidateSurvives ==
    \E k \in 1..Len(stovetop_time_patterns) :
        LET ms == FindIter(search_text, stovetop_time_patterns[k], 1)
        IN  \E n \in 1..Len(ms) : ~IsExcluded(search_text, ms[n]) /\ Minutes(ms[n]) <= 60

C10_Claim ==
    pc = "extracted" =>
        \A a, b \in 1..Len(counted) : a # b => counted[a] # counted[b]

====
